---- MODULE Spec2Model ----
(***************************************************************************)
(* Model of the intake wizard of src/uid.tsx (ModernIntakePage): the       *)
(* IntakeData record, validateStep, computeClassification, sanitizeInput,  *)
(* generateSecureId, and the handlers next, prev, toggleArrayField, the    *)
(* field onChange handlers and handleSubmit with its fetch continuation.   *)
(*                                                                         *)
(* Strings whose characters matter (the free-text fields that the regexes, *)
(* trim, length checks and the entity escaping look at) are sequences of   *)
(* one-character strings; enum values and messages are TLA+ strings.       *)
(* An unset optional enum (undefined in the source) is the value Undef.    *)
(***************************************************************************)
EXTENDS Integers, Sequences, FiniteSets, TLC

VARIABLES
  step,              \* useState(1): the wizard step, 1..5
  submissionStatus,  \* useState<SubmissionStatus>("idle")
  errors,            \* useState<Record<string, string>>({})
  submitError,       \* useState<string>("")
  data,              \* useState<IntakeData>(...)
  inflight,          \* the number of fetch calls awaiting their response
  request,           \* the request the last handler call passed to fetch, or NoRequest
  consoleLog,        \* the message the last step passed to console.error, or NoLog
  cryptoApi,         \* what the environment's crypto object offers
  lastKey,           \* the X-Idempotency-Key of the last request sent for the
                     \* record as it stands; NoKey before, and once it is edited
  succeeded,         \* a response with res.ok has arrived for a request of this page
  out                \* the last value returned by a function applied on its own

vars == <<step, submissionStatus, errors, submitError, data,
          inflight, request, consoleLog, cryptoApi, lastKey, succeeded, out>>

\* ---------- Constants (src/uid.tsx 34-36) ----------
MAX_TEXT_LENGTH == 5000
MAX_NAME_LENGTH == 100

\* undefined
Undef == "undefined"

\* ---------- Characters ----------
Whitespace == {" ", "\t", "\n"}
Digits == {"0", "1", "2", "3", "4", "5", "6", "7", "8", "9"}
UpperLetters == {"A", "B", "C", "D", "E", "F", "G", "H", "I", "J", "K", "L", "M",
                 "N", "O", "P", "Q", "R", "S", "T", "U", "V", "W", "X", "Y", "Z"}
LowerLetters == {"a", "b", "c", "d", "e", "f", "g", "h", "i", "j", "k", "l", "m",
                 "n", "o", "p", "q", "r", "s", "t", "u", "v", "w", "x", "y", "z"}

\* String.prototype.trim: whitespace removed at both ends.
RECURSIVE TrimLeft(_)
TrimLeft(s) ==
  IF s # <<>> /\ Head(s) \in Whitespace THEN TrimLeft(Tail(s)) ELSE s

RECURSIVE TrimRight(_)
TrimRight(s) ==
  IF s # <<>> /\ s[Len(s)] \in Whitespace
    THEN TrimRight(SubSeq(s, 1, Len(s) - 1))
    ELSE s

trim(s) == TrimRight(TrimLeft(s))

\* String.prototype.slice(0, n)
slice0(s, n) == IF Len(s) <= n THEN s ELSE SubSeq(s, 1, n)

\* ---------- Regular expressions ----------
\* A pattern is a sequence of items; an item is a character class with a
\* repetition range.  A regex is a set of alternative patterns, anchored at
\* both ends (every regex of the source is ^...$).
InClass(c, cls) ==
  CASE cls = "\\s"      -> c \in Whitespace
    [] cls = "\\d"      -> c \in Digits
    [] cls = "[^\\s@]"  -> c \notin (Whitespace \cup {"@"})
    [] cls = "[A-Z]i"   -> c \in (UpperLetters \cup LowerLetters)
    [] cls = "[A-Z\\d]i" -> c \in (UpperLetters \cup LowerLetters \cup Digits)
    [] OTHER            -> c = cls

Item(cls, lo, hi) == [cls |-> cls, lo |-> lo, hi |-> hi]
One(cls) == Item(cls, 1, 1)
Opt(cls) == Item(cls, 0, 1)
Plus(cls) == Item(cls, 1, -1)

\* The positions reachable from a position of P by one item.
StepItem(it, P, s) ==
  { q \in 0..Len(s) :
      \E p \in P :
        /\ q - p >= it.lo
        /\ (it.hi = -1 \/ q - p <= it.hi)
        /\ \A k \in (p + 1)..q : InClass(s[k], it.cls) }

RECURSIVE RunPattern(_, _, _, _)
RunPattern(pat, i, P, s) ==
  IF i > Len(pat) THEN P
  ELSE RunPattern(pat, i + 1, StepItem(pat[i], P, s), s)

MatchesPattern(pat, s) == Len(s) \in RunPattern(pat, 1, {0}, s)

RegexTest(alts, s) == \E pat \in alts : MatchesPattern(pat, s)

\* /^[^\s@]+@[^\s@]+\.[^\s@]+$/i
emailRe ==
  { << Plus("[^\\s@]"), One("@"), Plus("[^\\s@]"), One("."), Plus("[^\\s@]") >> }

\* /^(\+44\s?7\d{3}|07\d{3})\s?\d{3}\s?\d{3}$
\*  |^(\+44\s?1\d{3}|01\d{3}|\+44\s?2\d{2}|02\d{2})\s?\d{3,4}\s?\d{3,4}$/
PhoneMobileTail == << Opt("\\s"), Item("\\d", 3, 3), Opt("\\s"), Item("\\d", 3, 3) >>
PhoneLandTail == << Opt("\\s"), Item("\\d", 3, 4), Opt("\\s"), Item("\\d", 3, 4) >>
Plus44(d, n) == << One("+"), One("4"), One("4"), Opt("\\s"), One(d), Item("\\d", n, n) >>
Zero(d, n) == << One("0"), One(d), Item("\\d", n, n) >>

ukPhoneRe ==
  { Plus44("7", 3) \o PhoneMobileTail,
    Zero("7", 3) \o PhoneMobileTail,
    Plus44("1", 3) \o PhoneLandTail,
    Zero("1", 3) \o PhoneLandTail,
    Plus44("2", 2) \o PhoneLandTail,
    Zero("2", 2) \o PhoneLandTail }

\* /^[A-Z]{1,2}\d[A-Z\d]?\s?\d[A-Z]{2}$/i
postcodeRe ==
  { << Item("[A-Z]i", 1, 2), One("\\d"), Opt("[A-Z\\d]i"), Opt("\\s"),
       One("\\d"), Item("[A-Z]i", 2, 2) >> }

\* ---------- Types (src/uid.tsx 39-99) ----------
\* An optional text field that is absent from the payload (undefined).
UndefText == << "undefined" >>

AgeBands == {"under18", "18to24", "25to34", "35to44", "45to54", "55to64", "65plus"}
EmploymentStatuses ==
  {"employed", "selfEmployed", "unemployed", "student", "carer", "retired", "unableToWork"}
RelationshipStatuses ==
  {"single", "inRelationship", "marriedCivil", "separated", "divorced", "widowed"}
Housings == {"secure", "temporary", "sofaSurfing", "atRisk", "homeless"}
Dependents == {"none", "children", "adultDependents", "both"}
Severities == {"low", "moderate", "high", "crisis"}
PreferredContacts == {"email", "phone", "sms"}
SubmissionStatus == {"idle", "submitting", "success", "error"}

\* The keys of CONCERNS, in the order of the catalog.
CONCERNS ==
  << "employment", "relationships", "emotional", "finance", "housing",
     "legal", "addiction", "health", "abuse", "social" >>

\* The keys of the delivery-mode checkboxes of step 4.
SUPPORT_PREFERENCES == << "oneToOne", "group", "peer", "online", "phone", "inPerson" >>

Range(f) == { f[i] : i \in DOMAIN f }

\* ---------- Security helpers ----------
\* String.prototype.replace(/ch/g, rep)
RECURSIVE ReplaceAll(_, _, _)
ReplaceAll(s, ch, rep) ==
  IF Len(s) = 0 THEN << >>
  ELSE IF Len(s) = 1 THEN (IF s[1] = ch THEN rep ELSE s)
  ELSE LET h == Len(s) \div 2
       IN  ReplaceAll(SubSeq(s, 1, h), ch, rep)
             \o ReplaceAll(SubSeq(s, h + 1, Len(s)), ch, rep)

EntLt == << "&", "l", "t", ";" >>
EntGt == << "&", "g", "t", ";" >>
EntQuot == << "&", "q", "u", "o", "t", ";" >>
EntApos == << "&", "#", "x", "2", "7", ";" >>
EntSlash == << "&", "#", "x", "2", "F", ";" >>

sanitizeInput(input) ==
  LET a == ReplaceAll(input, "<", EntLt)
      b == ReplaceAll(a, ">", EntGt)
      c == ReplaceAll(b, "\"", EntQuot)
      d == ReplaceAll(c, "'", EntApos)
      e == ReplaceAll(d, "/", EntSlash)
  IN  slice0(trim(e), MAX_TEXT_LENGTH)

\* ---------- Validators ----------
\* An errors object: a function from the keys set so far to their messages.
NoErrors == [k \in {} |-> ""]

\* errors[k] = msg
Put(m, k, msg) == [x \in (DOMAIN m) \cup {k} |-> IF x = k THEN msg ELSE m[x]]

IsEmpty(m) == DOMAIN m = {}

\* A slip in the step-1 rules: lastName is looked at only when firstName passes.
ValidateIdentityLastNameChained(d) ==
  LET e1 == IF trim(d.firstName) = << >>
              THEN Put(NoErrors, "firstName", "First name is required")
            ELSE IF Len(d.firstName) > MAX_NAME_LENGTH
              THEN Put(NoErrors, "firstName", "First name must be less than 100 characters")
            ELSE IF trim(d.lastName) = << >>
              THEN Put(NoErrors, "lastName", "Last name is required")
            ELSE IF Len(d.lastName) > MAX_NAME_LENGTH
              THEN Put(NoErrors, "lastName", "Last name must be less than 100 characters")
            ELSE NoErrors
      e3 == IF trim(d.email) = << >> \/ ~RegexTest(emailRe, d.email)
              THEN Put(e1, "email", "Enter a valid email address")
            ELSE e1
      e4 == IF d.phone # << >> /\ ~RegexTest(ukPhoneRe, d.phone)
              THEN Put(e3, "phone", "Enter a valid UK phone number")
            ELSE e3
      e5 == IF d.postcode # << >> /\ ~RegexTest(postcodeRe, d.postcode)
              THEN Put(e4, "postcode", "Enter a valid UK postcode (e.g., SW1A 1AA)")
            ELSE e4
  IN  e5

ValidateIdentity(d) ==
  LET e1 == IF trim(d.firstName) = << >>
              THEN Put(NoErrors, "firstName", "First name is required")
            ELSE IF Len(d.firstName) > MAX_NAME_LENGTH
              THEN Put(NoErrors, "firstName", "First name must be less than 100 characters")
            ELSE NoErrors
      e2 == IF trim(d.lastName) = << >>
              THEN Put(e1, "lastName", "Last name is required")
            ELSE IF Len(d.lastName) > MAX_NAME_LENGTH
              THEN Put(e1, "lastName", "Last name must be less than 100 characters")
            ELSE e1
      e3 == IF trim(d.email) = << >> \/ ~RegexTest(emailRe, d.email)
              THEN Put(e2, "email", "Enter a valid email address")
            ELSE e2
      e4 == IF d.phone # << >> /\ ~RegexTest(ukPhoneRe, d.phone)
              THEN Put(e3, "phone", "Enter a valid UK phone number")
            ELSE e3
      e5 == IF d.postcode # << >> /\ ~RegexTest(postcodeRe, d.postcode)
              THEN Put(e4, "postcode", "Enter a valid UK postcode (e.g., SW1A 1AA)")
            ELSE e4
  IN  e5

ValidateBackground(d) ==
  LET e1 == IF d.employmentStatus = Undef
              THEN Put(NoErrors, "employmentStatus", "Select your current employment status")
            ELSE NoErrors
      e2 == IF d.relationshipStatus = Undef
              THEN Put(e1, "relationshipStatus", "Select your current relationship status")
            ELSE e1
      e3 == IF d.housing = Undef
              THEN Put(e2, "housing", "Select your housing situation")
            ELSE e2
  IN  e3

\* A slip in the step-3 rules: the crisis acknowledgement of step 5 is asked for.
ValidateConcernsAsksCrisisAck(d) ==
  LET e1 == IF Len(d.concerns) = 0
              THEN Put(NoErrors, "concerns", "Pick at least one area you want help with")
            ELSE NoErrors
      e2 == IF d.severity = Undef
              THEN Put(e1, "severity", "How urgent/severe does this feel right now?")
            ELSE IF ~d.consent.crisisProtocolOk /\ (d.severity = "high" \/ d.severity = "crisis")
              THEN Put(e1, "severity", "Please acknowledge the crisis protocol")
            ELSE e1
      e3 == IF d.concernDetails # << >> /\ Len(d.concernDetails) > MAX_TEXT_LENGTH
              THEN Put(e2, "concernDetails", "Details must be less than 5000 characters")
            ELSE e2
  IN  e3

ValidateConcerns(d) ==
  LET e1 == IF Len(d.concerns) = 0
              THEN Put(NoErrors, "concerns", "Pick at least one area you want help with")
            ELSE NoErrors
      e2 == IF d.severity = Undef
              THEN Put(e1, "severity", "How urgent/severe does this feel right now?")
            ELSE e1
      e3 == IF d.concernDetails # << >> /\ Len(d.concernDetails) > MAX_TEXT_LENGTH
              THEN Put(e2, "concernDetails", "Details must be less than 5000 characters")
            ELSE e2
  IN  e3

\* A slip in the key: the entry is named after the rule.
ValidatePreferencesKeyedByRule(d) ==
  IF d.preferredContact = Undef
    THEN Put(NoErrors, "contactRequired", "Choose how we should contact you")
    ELSE NoErrors

ValidatePreferences(d) ==
  IF d.preferredContact = Undef
    THEN Put(NoErrors, "preferredContact", "Choose how we should contact you")
    ELSE NoErrors

\* A slip in the consent rule: the crisis acknowledgement is not asked for.
ValidateConsentPrivacyOnly(d) ==
  IF ~d.consent.privacyPolicyAccepted
    THEN Put(NoErrors, "privacy", "You must accept the Privacy Policy to continue")
    ELSE NoErrors

\* A slip in the consent rule: the acknowledgement is asked for crisis only.
ValidateConsentCrisisOnly(d) ==
  LET e1 == IF ~d.consent.privacyPolicyAccepted
              THEN Put(NoErrors, "privacy", "You must accept the Privacy Policy to continue")
            ELSE NoErrors
      e2 == IF ~d.consent.crisisProtocolOk /\ d.severity = "crisis"
              THEN Put(e1, "crisis", "Please acknowledge the crisis protocol")
            ELSE e1
  IN  e2

ValidateConsent(d) ==
  LET e1 == IF ~d.consent.privacyPolicyAccepted
              THEN Put(NoErrors, "privacy", "You must accept the Privacy Policy to continue")
            ELSE NoErrors
      e2 == IF ~d.consent.crisisProtocolOk /\ (d.severity = "high" \/ d.severity = "crisis")
              THEN Put(e1, "crisis", "Please acknowledge the crisis protocol")
            ELSE e1
  IN  e2

validateStep(s, d) ==
  CASE s = 1 -> ValidateIdentity(d)
    [] s = 2 -> ValidateBackground(d)
    [] s = 3 -> ValidateConcerns(d)
    [] s = 4 -> ValidatePreferences(d)
    [] s = 5 -> ValidateConsent(d)
    [] OTHER -> NoErrors

\* ---------- Client-side triage ----------
\* A slip in the severity rule: crisis weighs 8.
SeverityScoreCrisisEight(d) ==
  (IF d.severity = "moderate" THEN 2 ELSE 0)
  + (IF d.severity = "high" THEN 4 ELSE 0)
  + (IF d.severity = "crisis" THEN 8 ELSE 0)

SeverityScore(d) ==
  (IF d.severity = "moderate" THEN 2 ELSE 0)
  + (IF d.severity = "high" THEN 4 ELSE 0)
  + (IF d.severity = "crisis" THEN 6 ELSE 0)

RiskFlagScore(d) ==
  (IF d.riskFlags.selfHarm THEN 6 ELSE 0)
  + (IF d.riskFlags.domesticAbuse THEN 6 ELSE 0)
  + (IF d.riskFlags.harmToOthers THEN 4 ELSE 0)
  + (IF d.riskFlags.substanceRisk THEN 3 ELSE 0)

\* A slip in the housing rule: atRisk forgotten.
HousingScoreHomelessOnly(d) ==
  IF d.housing = "homeless" THEN 3 ELSE 0

HousingScore(d) ==
  IF d.housing = "homeless" \/ d.housing = "atRisk" THEN 3 ELSE 0

\* A slip in the employment rule: unableToWork forgotten.
EmploymentScoreUnemployedOnly(d) ==
  IF d.employmentStatus = "unemployed" THEN 2 ELSE 0

EmploymentScore(d) ==
  IF d.employmentStatus = "unemployed" \/ d.employmentStatus = "unableToWork" THEN 2 ELSE 0

\* A slip in the flag rule: "riskScore = 6" for "riskScore += 6" at domesticAbuse.
RiskScoreDomesticAbuseAssigned(d) ==
  IF d.riskFlags.domesticAbuse
    THEN 6 + (IF d.riskFlags.harmToOthers THEN 4 ELSE 0)
           + (IF d.riskFlags.substanceRisk THEN 3 ELSE 0)
           + HousingScore(d) + EmploymentScore(d)
    ELSE SeverityScore(d) + RiskFlagScore(d) + HousingScore(d) + EmploymentScore(d)

RiskScore(d) == SeverityScore(d) + RiskFlagScore(d) + HousingScore(d) + EmploymentScore(d)

\* buckets.push(b) when cond
PushIf(buckets, cond, b) == IF cond THEN Append(buckets, b) ELSE buckets

\* A slip in the bucket rule: one push per concern of the second rule.
BucketsPushPerConcern(d) ==
  LET c  == Range(d.concerns)
      b1 == PushIf(<< >>, "abuse" \in c, "Safety/Crisis")
      b2 == PushIf(b1, "emotional" \in c, "Mental Health & Addiction")
      b3 == PushIf(b2, "addiction" \in c, "Mental Health & Addiction")
      b4 == PushIf(b3, "employment" \in c, "Employment & Skills")
      b5 == PushIf(b4, "finance" \in c, "Money/Debt Advice")
      b6 == PushIf(b5, "housing" \in c, "Housing Support")
      b7 == PushIf(b6, "relationships" \in c, "Family/Relationship Support")
      b8 == PushIf(b7, "health" \in c, "Physical Health Navigation")
      b9 == PushIf(b8, "social" \in c, "Connection/Peer Support")
  IN  b9

Buckets(d) ==
  LET c  == Range(d.concerns)
      b1 == PushIf(<< >>, "abuse" \in c, "Safety/Crisis")
      b2 == PushIf(b1, "emotional" \in c \/ "addiction" \in c, "Mental Health & Addiction")
      b3 == PushIf(b2, "employment" \in c, "Employment & Skills")
      b4 == PushIf(b3, "finance" \in c, "Money/Debt Advice")
      b5 == PushIf(b4, "housing" \in c, "Housing Support")
      b6 == PushIf(b5, "relationships" \in c, "Family/Relationship Support")
      b7 == PushIf(b6, "health" \in c, "Physical Health Navigation")
      b8 == PushIf(b7, "social" \in c, "Connection/Peer Support")
  IN  b8

\* A slip in the thresholds: strict comparisons.
PriorityStrict(riskScore) ==
  IF riskScore > 12 THEN "Immediate"
  ELSE IF riskScore > 8 THEN "High"
  ELSE IF riskScore > 4 THEN "Medium"
  ELSE "Low"

Priority(riskScore) ==
  IF riskScore >= 12 THEN "Immediate"
  ELSE IF riskScore >= 8 THEN "High"
  ELSE IF riskScore >= 4 THEN "Medium"
  ELSE "Low"

computeClassification(d) ==
  [ riskScore |-> RiskScore(d),
    buckets   |-> Buckets(d),
    priority  |-> Priority(RiskScore(d)) ]

\* ---------- Bounds of the model ----------
\* The pending fetch calls followed at once.
MaxInFlight == 2
\* The identifiers crypto.randomUUID / getRandomValues may return are 1..NumUuids.
NumUuids == 2

UUIDS == 1..NumUuids

\* ---------- Inputs of the model ----------
NameAl == << "A", "l" >>
NameLi == << "L", "i" >>
EmailGood == << "a", "@", "b", ".", "c" >>
PhoneGood == << "0", "7", "1", "2", "3", " ", "4", "5", "6", "7", "8", "9" >>
DetailsTag == << "<", "b", ">" >>

\* What the user types or selects in the inputs rendered at each step:
\* pairs << field, value >> for the handlers setData({...data, field: value}).
FieldInputs ==
  [ s \in 1..5 |->
      CASE s = 1 -> { << "firstName", << >> >>, << "firstName", NameAl >>,
                      << "lastName", NameLi >>,
                      << "email", EmailGood >>,
                      << "phone", PhoneGood >> }
        [] s = 2 -> { << "employmentStatus", "unemployed" >>,
                      << "relationshipStatus", "single" >>,
                      << "housing", "homeless" >> }
        [] s = 3 -> { << "concernDetails", DetailsTag >>,
                      << "severity", "low" >>, << "severity", "crisis" >> }
        [] s = 4 -> { << "preferredContact", "email" >> }
        [] s = 5 -> { } ]

\* The concern and delivery-mode checkboxes the user clicks.
ToggleInputs == { << "concerns", "abuse" >>, << "supportPreferences", "online" >> }
\* The risk-flag and consent checkboxes the user clicks.
RiskFlagInputs == { "selfHarm" }
ConsentInputs == { "privacyPolicyAccepted", "crisisProtocolOk" }

\* crypto offers randomUUID, only getRandomValues, or neither.
CryptoApis == { "randomUUID", "getRandomValues", "none" }
\* getCsrfToken(): the token of the meta tag or cookie, or null.
CsrfTokens == { "null", "csrf-token" }
\* The JSON bodies of a non-2xx response: one with a message, one without,
\* and one res.json() rejects.
ErrorBodies == { "message", "noMessage", "notJson" }
ServerMessage == "Database connection refused"

\* ---------- Main component: state (src/uid.tsx 268-306) ----------
\* A slip in the initial record: a severity preselected.
InitialDataSeverityLow ==
  [ firstName |-> << >>,
    lastName |-> << >>,
    email |-> << >>,
    phone |-> << >>,
    postcode |-> << >>,
    pronouns |-> << >>,
    ageBand |-> Undef,
    employmentStatus |-> Undef,
    relationshipStatus |-> Undef,
    housing |-> Undef,
    dependents |-> "none",
    concerns |-> << >>,
    concernDetails |-> << >>,
    severity |-> "low",
    riskFlags |-> [ selfHarm |-> FALSE, harmToOthers |-> FALSE,
                    domesticAbuse |-> FALSE, substanceRisk |-> FALSE ],
    gpRegistered |-> Undef,
    supportPreferences |-> << >>,
    availability |-> << >>,
    preferredContact |-> Undef,
    consent |-> [ privacyPolicyAccepted |-> FALSE, shareWithPartners |-> FALSE,
                  anonymisedInsights |-> TRUE, crisisProtocolOk |-> FALSE ],
    source |-> "web" ]

InitialData ==
  [ firstName |-> << >>,
    lastName |-> << >>,
    email |-> << >>,
    phone |-> << >>,
    postcode |-> << >>,
    pronouns |-> << >>,
    ageBand |-> Undef,
    employmentStatus |-> Undef,
    relationshipStatus |-> Undef,
    housing |-> Undef,
    dependents |-> "none",
    concerns |-> << >>,
    concernDetails |-> << >>,
    severity |-> Undef,
    riskFlags |-> [ selfHarm |-> FALSE, harmToOthers |-> FALSE,
                    domesticAbuse |-> FALSE, substanceRisk |-> FALSE ],
    gpRegistered |-> Undef,
    supportPreferences |-> << >>,
    availability |-> << >>,
    preferredContact |-> Undef,
    consent |-> [ privacyPolicyAccepted |-> FALSE, shareWithPartners |-> FALSE,
                  anonymisedInsights |-> TRUE, crisisProtocolOk |-> FALSE ],
    source |-> "web" ]

NoRequest == [ sent |-> FALSE ]
NoLog == "(nothing logged)"
NoOut == [ op |-> "none" ]
NoKey == 0

\* A slip in the memo: an empty dependency list, the value of the first render.
triageNeverRecomputed == computeClassification(InitialData)

\* useMemo(() => computeClassification(data), [data])
triage == computeClassification(data)

Init ==
  /\ step = 1
  /\ submissionStatus = "idle"
  /\ errors = NoErrors
  /\ submitError = ""
  /\ data = InitialData
  /\ inflight = 0
  /\ request = NoRequest
  /\ consoleLog = NoLog
  /\ cryptoApi \in CryptoApis
  /\ lastKey = NoKey
  /\ succeeded = FALSE
  /\ out = NoOut

\* The form is on the page: the success view replaces the whole page.
FormRendered == submissionStatus # "success"

\* What a step that calls neither fetch nor console.error leaves behind.
Quiet == request' = NoRequest /\ consoleLog' = NoLog

\* setData: a record that differs from the one last sent has no key yet.
RecordSet == lastKey' = IF data' = data THEN lastKey ELSE NoKey

\* ---------- Field handlers ----------
\* A slip in the form: the inputs of every step are rendered at every step.
SetFieldAtAnyStep(f, v) ==
  /\ FormRendered
  /\ \E s \in 1..5 : << f, v >> \in FieldInputs[s]
  /\ data' = [data EXCEPT ![f] = v]
  /\ RecordSet
  /\ Quiet
  /\ UNCHANGED <<step, submissionStatus, errors, submitError, inflight, cryptoApi, succeeded, out>>

\* onChange / onValueChange of an input of the current step.
SetField(f, v) ==
  /\ FormRendered
  /\ << f, v >> \in FieldInputs[step]
  /\ data' = [data EXCEPT ![f] = v]
  /\ RecordSet
  /\ Quiet
  /\ UNCHANGED <<step, submissionStatus, errors, submitError, inflight, cryptoApi, succeeded, out>>

\* onCheckedChange of a risk-flag checkbox (step 3): v is the new checked state.
SetRiskFlag(k) ==
  /\ FormRendered
  /\ step = 3
  /\ data' = [data EXCEPT !.riskFlags[k] = ~data.riskFlags[k]]
  /\ RecordSet
  /\ Quiet
  /\ UNCHANGED <<step, submissionStatus, errors, submitError, inflight, cryptoApi, succeeded, out>>

\* The crisis checkbox is rendered only for severity high or crisis.
ConsentRendered(k) ==
  k = "crisisProtocolOk" => (data.severity = "high" \/ data.severity = "crisis")

\* onCheckedChange of a consent checkbox (step 5).
SetConsent(k) ==
  /\ FormRendered
  /\ step = 5
  /\ ConsentRendered(k)
  /\ data' = [data EXCEPT !.consent[k] = ~data.consent[k]]
  /\ RecordSet
  /\ Quiet
  /\ UNCHANGED <<step, submissionStatus, errors, submitError, inflight, cryptoApi, succeeded, out>>

\* Array.from(new Set(arr)): the first occurrence of each value, in order.
RECURSIVE Dedup(_)
Dedup(arr) ==
  IF arr = << >> THEN << >>
  ELSE LET rest == Dedup(SubSeq(arr, 1, Len(arr) - 1))
           last == arr[Len(arr)]
       IN  IF last \in Range(rest) THEN rest ELSE Append(rest, last)

\* Set.prototype.delete keeps the order of the others.
RECURSIVE Without(_, _)
Without(arr, v) ==
  IF arr = << >> THEN << >>
  ELSE IF Head(arr) = v THEN Without(Tail(arr), v)
  ELSE << Head(arr) >> \o Without(Tail(arr), v)

\* A slip in the toggle: the value is pushed onto the array.
ToggledArrayPushes(currentArray, value) == Append(currentArray, value)

ToggledArray(currentArray, value) ==
  LET arr == Dedup(currentArray)
  IN  IF value \in Range(arr) THEN Without(arr, value) ELSE Append(arr, value)

ToggleStep(field) == IF field = "concerns" THEN 3 ELSE 4

toggleArrayField(field, value) ==
  /\ FormRendered
  /\ step = ToggleStep(field)
  /\ data' = [data EXCEPT ![field] = ToggledArray(data[field], value)]
  /\ RecordSet
  /\ Quiet
  /\ UNCHANGED <<step, submissionStatus, errors, submitError, inflight, cryptoApi, succeeded, out>>

\* ---------- Navigation ----------
Min(a, b) == IF a <= b THEN a ELSE b
Max(a, b) == IF a >= b THEN a ELSE b

\* A slip in next: the step advances whatever validateStep returns.
nextUngated ==
  /\ FormRendered
  /\ step < 5
  /\ errors' = validateStep(step, data)
  /\ step' = Min(5, step + 1)
  /\ Quiet
  /\ UNCHANGED <<submissionStatus, submitError, data, inflight, cryptoApi, lastKey, succeeded, out>>

\* Continue is rendered at steps 1..4.
next ==
  /\ FormRendered
  /\ step < 5
  /\ LET e == validateStep(step, data)
     IN  /\ errors' = e
         /\ step' = IF IsEmpty(e) THEN Min(5, step + 1) ELSE step
  /\ Quiet
  /\ UNCHANGED <<submissionStatus, submitError, data, inflight, cryptoApi, lastKey, succeeded, out>>

\* Back is disabled at step 1 and while submitting.
prev ==
  /\ FormRendered
  /\ ~(step = 1 \/ submissionStatus = "submitting")
  /\ step' = Max(1, step - 1)
  /\ errors' = NoErrors
  /\ Quiet
  /\ UNCHANGED <<submissionStatus, submitError, data, inflight, cryptoApi, lastKey, succeeded, out>>

\* ---------- Submission ----------
\* crypto.randomUUID() or the getRandomValues fallback: some identifier.
\* Without either, generateSecureId throws.
CryptoAvailable == cryptoApi = "randomUUID" \/ cryptoApi = "getRandomValues"

\* A slip in generateSecureId: without crypto, an identifier made from Date.now().
generateSecureIdWeakFallback == IF CryptoAvailable THEN UUIDS ELSE { 0 }

generateSecureId == IF CryptoAvailable THEN UUIDS ELSE { }

\* data.f ? sanitizeInput(data.f) : undefined
SanitizeOptional(text) == IF text # << >> THEN sanitizeInput(text) ELSE UndefText

\* A slip in the payload: availability is passed as typed.
sanitizedDataRawAvailability(d) ==
  [ d EXCEPT !.firstName = sanitizeInput(@),
             !.lastName = sanitizeInput(@),
             !.email = sanitizeInput(@),
             !.phone = SanitizeOptional(@),
             !.postcode = SanitizeOptional(@),
             !.pronouns = SanitizeOptional(@),
             !.concernDetails = SanitizeOptional(@) ]

sanitizedData(d) ==
  [ d EXCEPT !.firstName = sanitizeInput(@),
             !.lastName = sanitizeInput(@),
             !.email = sanitizeInput(@),
             !.phone = SanitizeOptional(@),
             !.postcode = SanitizeOptional(@),
             !.pronouns = SanitizeOptional(@),
             !.concernDetails = SanitizeOptional(@),
             !.availability = SanitizeOptional(@) ]

\* { ...sanitizedData, triage, submittedAt, schemaVersion: 1 }
RequestBody(d, t) ==
  LET sd == sanitizedData(d)
  IN  [ k \in (DOMAIN sd) \cup { "triage", "submittedAt", "schemaVersion" } |->
          CASE k = "triage" -> t
            [] k = "submittedAt" -> "new Date().toISOString()"
            [] k = "schemaVersion" -> 1
            [] OTHER -> sd[k] ]

Request(id, csrfToken, d, t) ==
  [ sent |-> TRUE,
    method |-> "POST",
    idempotencyKey |-> id,
    csrfToken |-> csrfToken,
    body |-> RequestBody(d, t) ]

\* The catch block: err instanceof Error ? err.message : (the generic text)
GenericMessage == "Sorry, something went wrong. Please try again or contact us directly."

NewError(message) == [ isError |-> TRUE, message |-> message ]

ShownMessage(err) == IF err.isError THEN err.message ELSE GenericMessage

\* A slip in the catch block: the status is left as it is.
CatchKeepsStatus(err) ==
  /\ consoleLog' = err.message
  /\ UNCHANGED submissionStatus
  /\ submitError' = ShownMessage(err)

Catch(err) ==
  /\ consoleLog' = err.message
  /\ submissionStatus' = "error"
  /\ submitError' = ShownMessage(err)

\* A slip in handleSubmit: the status and message are reset before the check.
HandleSubmitBlockedResets ==
  LET e2 == validateStep(5, data)
  IN  /\ ~IsEmpty(e2)
      /\ errors' = e2
      /\ submissionStatus' = "idle"
      /\ submitError' = ""
      /\ Quiet
      /\ UNCHANGED <<step, data, inflight, cryptoApi, lastKey, succeeded, out>>

\* validateStep(5, data) has entries: return after setErrors.
HandleSubmitBlocked ==
  LET e2 == validateStep(5, data)
  IN  /\ ~IsEmpty(e2)
      /\ errors' = e2
      /\ Quiet
      /\ UNCHANGED <<step, submissionStatus, submitError, data, inflight, cryptoApi, lastKey, succeeded, out>>

\* generateSecureId throws before fetch is called.
HandleSubmitThrows ==
  LET e2 == validateStep(5, data)
  IN  /\ IsEmpty(e2)
      /\ generateSecureId = { }
      /\ errors' = e2
      /\ Catch(NewError("Crypto API not available"))
      /\ request' = NoRequest
      /\ UNCHANGED <<step, data, inflight, cryptoApi, lastKey, succeeded, out>>

\* The request is passed to fetch and handleSubmit awaits the response.
HandleSubmitSends ==
  LET e2 == validateStep(5, data)
  IN  /\ IsEmpty(e2)
      /\ inflight < MaxInFlight
      /\ \E id \in generateSecureId, csrfToken \in CsrfTokens :
           /\ request' = Request(id, csrfToken, data, triage)
           /\ lastKey' = id
      /\ inflight' = inflight + 1
      /\ errors' = e2
      /\ submissionStatus' = "submitting"
      /\ submitError' = ""
      /\ consoleLog' = NoLog
      /\ UNCHANGED <<step, data, cryptoApi, succeeded, out>>

handleSubmit == HandleSubmitBlocked \/ HandleSubmitThrows \/ HandleSubmitSends

\* The submit button: rendered at step 5, disabled while submitting.
SubmitButton ==
  /\ FormRendered
  /\ step = 5
  /\ submissionStatus # "submitting"
  /\ handleSubmit

\* <form onSubmit={handleSubmit}> : at step 4 the form holds one text input
\* (availability) and no submit button, so Enter in that input submits the form.
EnterInAvailability ==
  /\ FormRendered
  /\ step = 4
  /\ handleSubmit

\* One pending fetch call settles.
Settle ==
  /\ inflight > 0
  /\ inflight' = inflight - 1

\* res.ok
FetchOk ==
  /\ Settle
  /\ submissionStatus' = "success"
  /\ succeeded' = TRUE
  /\ Quiet
  /\ UNCHANGED <<step, errors, submitError, data, cryptoApi, lastKey, out>>

\* await res.json().catch(() => ({ message: "Unknown error" }))
ErrorData(bodyKind) ==
  CASE bodyKind = "message" -> [ message |-> ServerMessage ]
    [] bodyKind = "noMessage" -> [ message |-> "" ]
    [] OTHER -> [ message |-> "Unknown error" ]

\* A slip in the message: no fallback when the body has no message.
ResponseErrorNoFallback(bodyKind) == NewError(ErrorData(bodyKind).message)

\* errorData.message || `Server returned ${res.status}`
ResponseError(bodyKind) ==
  LET errorData == ErrorData(bodyKind)
  IN  NewError(IF errorData.message # "" THEN errorData.message
               ELSE "Server returned 500")

\* !res.ok
FetchNotOk(bodyKind) ==
  /\ Settle
  /\ bodyKind \in ErrorBodies
  /\ Catch(ResponseError(bodyKind))
  /\ request' = NoRequest
  /\ UNCHANGED <<step, errors, data, cryptoApi, lastKey, succeeded, out>>

\* fetch rejects: a network failure.
FetchRejected ==
  /\ Settle
  /\ Catch(NewError("Failed to fetch"))
  /\ request' = NoRequest
  /\ UNCHANGED <<step, errors, data, cryptoApi, lastKey, succeeded, out>>

\* ---------- The wizard ----------
Next ==
  \/ \E s \in 1..5 : \E fv \in FieldInputs[s] : SetField(fv[1], fv[2])
  \/ \E k \in RiskFlagInputs : SetRiskFlag(k)
  \/ \E k \in ConsentInputs : SetConsent(k)
  \/ \E fv \in ToggleInputs : toggleArrayField(fv[1], fv[2])
  \/ next
  \/ prev
  \/ SubmitButton
  \/ EnterInAvailability
  \/ FetchOk
  \/ \E b \in ErrorBodies : FetchNotOk(b)
  \/ FetchRejected

Spec == Init /\ [][Next]_vars

\* The transport settles every pending fetch: it resolves (2xx or not) or rejects.
FetchSettles ==
  FetchOk \/ (\E b \in ErrorBodies : FetchNotOk(b)) \/ FetchRejected

FairSpec == Init /\ [][Next]_vars /\ WF_vars(FetchSettles)

\* ---------- computeClassification applied on its own ----------
\* The longest concerns array given to computeClassification.
MaxConcernsLen == 3

RECURSIVE SeqsUpTo(_, _)
SeqsUpTo(S, n) ==
  IF n = 0 THEN { << >> }
  ELSE LET shorter == SeqsUpTo(S, n - 1)
       IN  shorter \cup { Append(q, x) : q \in { r \in shorter : Len(r) = n - 1 }, x \in S }

\* Arrays of up to n concern keys, in any order, with or without repeated keys.
ConcernArrays(n) == SeqsUpTo(Range(CONCERNS), n)

\* A record with the fields that no scoring rule reads filled in.
FilledData ==
  [ InitialData EXCEPT
      !.firstName = NameAl, !.lastName = NameLi, !.email = EmailGood,
      !.phone = PhoneGood, !.ageBand = "65plus", !.relationshipStatus = "widowed",
      !.dependents = "both", !.concernDetails = DetailsTag, !.gpRegistered = "true",
      !.supportPreferences = << "phone", "online" >>, !.preferredContact = "sms",
      !.consent = [ privacyPolicyAccepted |-> TRUE, shareWithPartners |-> TRUE,
                    anonymisedInsights |-> FALSE, crisisProtocolOk |-> TRUE ],
      !.source = "referral" ]

RiskFlagSets ==
  [ { "selfHarm", "harmToOthers", "domesticAbuse", "substanceRisk" } -> BOOLEAN ]

\* The inputs: every severity, flag, housing and employment value, on two base
\* records and a few concerns arrays; and every concerns array on the two base
\* records.
ScoreInput(d) ==
  \E b \in { InitialData, FilledData },
     sev \in Severities \cup { Undef },
     fl \in RiskFlagSets,
     h \in Housings \cup { Undef },
     emp \in EmploymentStatuses \cup { Undef },
     cs \in { << >>, << "emotional" >>, << "housing", "abuse" >> } :
    d = [ b EXCEPT !.severity = sev, !.riskFlags = fl, !.housing = h,
                   !.employmentStatus = emp, !.concerns = cs ]

ConcernsInput(d) ==
  \E b \in { InitialData, FilledData }, cs \in ConcernArrays(MaxConcernsLen) :
    d = [ b EXCEPT !.concerns = cs ]

ClassifyInit ==
  /\ step = 1
  /\ submissionStatus = "idle"
  /\ errors = NoErrors
  /\ submitError = ""
  /\ ScoreInput(data) \/ ConcernsInput(data)
  /\ inflight = 0
  /\ request = NoRequest
  /\ consoleLog = NoLog
  /\ cryptoApi = "randomUUID"
  /\ lastKey = NoKey
  /\ succeeded = FALSE
  /\ out = NoOut

Classify ==
  /\ out = NoOut
  /\ out' = [ op |-> "computeClassification", arg |-> data,
              val |-> computeClassification(data) ]
  /\ UNCHANGED <<step, submissionStatus, errors, submitError, data,
                 inflight, request, consoleLog, cryptoApi, lastKey, succeeded>>

ClassifyNext == Classify

ClassifySpec == ClassifyInit /\ [][ClassifyNext]_vars

Classified == out.op = "computeClassification"

\* ---------- C1 ----------
\* The weights of the scoring rules, as tables.
SeverityWeight(sev) ==
  CASE sev = "moderate" -> 2 [] sev = "high" -> 4 [] sev = "crisis" -> 6 [] OTHER -> 0

FlagWeight(k) ==
  CASE k = "selfHarm" -> 6 [] k = "domesticAbuse" -> 6
    [] k = "harmToOthers" -> 4 [] k = "substanceRisk" -> 3

RECURSIVE FlagWeights(_)
FlagWeights(S) ==
  IF S = { } THEN 0
  ELSE LET x == CHOOSE y \in S : TRUE IN FlagWeight(x) + FlagWeights(S \ { x })

ExpectedScore(d) ==
  SeverityWeight(d.severity)
  + FlagWeights({ k \in DOMAIN d.riskFlags : d.riskFlags[k] })
  + (IF d.housing \in { "homeless", "atRisk" } THEN 3 ELSE 0)
  + (IF d.employmentStatus \in { "unemployed", "unableToWork" } THEN 2 ELSE 0)

\* C1: for every record, the riskScore returned by computeClassification is the
\* sum of the severity weight (moderate 2, high 4, crisis 6, else 0), the weights
\* of the risk flags that are true (selfHarm 6, domesticAbuse 6, harmToOthers 4,
\* substanceRisk 3), 3 iff housing is homeless or atRisk, and 2 iff
\* employmentStatus is unemployed or unableToWork; no other field enters it.
C1_RiskScoreIsSumOfContributions ==
  Classified => out.val.riskScore = ExpectedScore(out.arg)

\* A record on which all four contributions are present, with other fields set.
C1_Witness ==
  /\ Classified
  /\ out.arg.severity = "high"
  /\ out.arg.riskFlags.harmToOthers /\ out.arg.riskFlags.substanceRisk
  /\ out.arg.housing = "atRisk"
  /\ out.arg.employmentStatus = "unableToWork"
  /\ out.arg.dependents = "both"
  /\ out.val.riskScore = 16

\* ---------- C2 ----------
\* C2: priority is Immediate iff riskScore >= 12, High iff 8..11, Medium iff
\* 4..7, Low iff <= 3; severity crisis with no flags, secure housing and
\* employed gives riskScore 6 and priority Medium.
C2_PriorityThresholds ==
  Classified =>
    LET r == out.val
        d == out.arg
    IN  /\ (r.priority = "Immediate") <=> (r.riskScore >= 12)
        /\ (r.priority = "High") <=> (8 <= r.riskScore /\ r.riskScore <= 11)
        /\ (r.priority = "Medium") <=> (4 <= r.riskScore /\ r.riskScore <= 7)
        /\ (r.priority = "Low") <=> (r.riskScore <= 3)
        /\ ( /\ d.severity = "crisis"
             /\ \A k \in DOMAIN d.riskFlags : ~d.riskFlags[k]
             /\ d.housing = "secure"
             /\ d.employmentStatus = "employed" )
           => (r.riskScore = 6 /\ r.priority = "Medium")

\* A record at a threshold: score 12 (crisis, selfHarm), classified Immediate.
C2_Witness ==
  /\ Classified
  /\ out.arg.severity = "crisis"
  /\ out.arg.riskFlags.selfHarm
  /\ out.val.riskScore = 12
  /\ out.val.priority = "Immediate"

\* ---------- C3 ----------
\* The canonical bucket list with the concern keys that trigger each bucket.
CanonicalBuckets ==
  << [ bucket |-> "Safety/Crisis", triggers |-> { "abuse" } ],
     [ bucket |-> "Mental Health & Addiction", triggers |-> { "emotional", "addiction" } ],
     [ bucket |-> "Employment & Skills", triggers |-> { "employment" } ],
     [ bucket |-> "Money/Debt Advice", triggers |-> { "finance" } ],
     [ bucket |-> "Housing Support", triggers |-> { "housing" } ],
     [ bucket |-> "Family/Relationship Support", triggers |-> { "relationships" } ],
     [ bucket |-> "Physical Health Navigation", triggers |-> { "health" } ],
     [ bucket |-> "Connection/Peer Support", triggers |-> { "social" } ] >>

\* The subsequence of the canonical list whose trigger is among the keys.
ExpectedBuckets(keys) ==
  LET Triggered(e) == e.triggers \cap keys # { }
      kept == SelectSeq(CanonicalBuckets, Triggered)
  IN  [ i \in 1..Len(kept) |-> kept[i].bucket ]

\* C3: for every concerns array (any order, repeated keys or not) the buckets
\* are exactly the subsequence of the canonical list whose trigger is present:
\* a function of the set of keys alone, without duplicates.
C3_BucketsCanonical ==
  Classified =>
    /\ out.val.buckets = ExpectedBuckets(Range(out.arg.concerns))
    /\ Cardinality(Range(out.val.buckets)) = Len(out.val.buckets)

\* Both triggers of the second bucket, one of them twice, given out of the
\* canonical order.
C3_Witness ==
  /\ Classified
  /\ out.arg.concerns = << "addiction", "emotional", "addiction" >>
  /\ out.val.buckets = << "Mental Health & Addiction" >>

\* ---------- C4 ----------
\* C4: in every payload handed to the transport, consent.privacyPolicyAccepted
\* is true, and consent.crisisProtocolOk is true whenever severity is high or
\* crisis, after any sequence of edits, next, prev and submit.
C4_PayloadConsent ==
  request.sent =>
    /\ request.body.consent.privacyPolicyAccepted
    /\ (request.body.severity \in { "high", "crisis" })
         => request.body.consent.crisisProtocolOk

\* A payload with severity crisis is handed over.
C4_Witness ==
  /\ request.sent
  /\ request.body.severity = "crisis"
  /\ request.body.consent.crisisProtocolOk

\* ---------- C5 ----------
\* C5: every request sent carries a record that validateStep accepts at every
\* step 1..5 (the payload is built from the record the wizard holds when
\* handleSubmit runs, which itself checks step 5 only).
C5_PayloadValidAtEveryStep ==
  request.sent =>
    /\ request.body = RequestBody(data, computeClassification(data))
    /\ \A k \in 1..5 : IsEmpty(validateStep(k, data))

\* A request is sent for a record whose optional fields of steps 1 and 3 are
\* filled; its details are carried escaped.
C5_Witness ==
  /\ request.sent
  /\ data.phone = PhoneGood
  /\ data.concernDetails = DetailsTag
  /\ request.body.concernDetails = EntLt \o << "b" >> \o EntGt
  /\ step = 5

\* ---------- C6 ----------
\* C6: next() at step s moves to s+1 exactly when validateStep(s, record) is
\* empty; otherwise the step is unchanged and the stored errors equal the
\* returned mapping; no step moves forward by another way, and the step stays
\* within 1..5.
\* (next changes neither data nor inflight and moves the step by 0 or 1: the
\* comparisons in front of it only spare evaluating next on the other steps.)
C6_NextGatedByValidation ==
  [][ /\ (data' = data /\ inflight' = inflight /\ step' >= step /\ next)
           => LET e == validateStep(step, data)
              IN  IF IsEmpty(e)
                  THEN step' = step + 1 /\ IsEmpty(errors')
                  ELSE step' = step /\ errors' = e
      /\ (step' > step) =>
           (step' = step + 1 /\ IsEmpty(validateStep(step, data)))
      /\ (step' < step) => (step' = step - 1 /\ IsEmpty(errors'))
      /\ step' \in 1..5 ]_vars

\* next was refused at step 3 after being accepted at steps 1 and 2.
C6_Witness ==
  /\ step = 3
  /\ DOMAIN errors = { "concerns", "severity" }
  /\ IsEmpty(validateStep(1, data)) /\ IsEmpty(validateStep(2, data))

\* ---------- C7 ----------
\* C7: at most one submission request is in flight at any time.
C7_AtMostOneInFlight == inflight <= 1

\* ---------- C8 ----------
\* C8: a step in which a pending request fails leaves submissionStatus
\* "error" and a non-empty submitError, and changes neither the record nor the
\* step; the step that sends a request changes neither.
C8_FailureKeepsRecord ==
  [][ /\ (inflight' < inflight /\ consoleLog' # NoLog) =>
           /\ submissionStatus' = "error"
           /\ submitError' # ""
           /\ data' = data
           /\ step' = step
      /\ request'.sent => (data' = data /\ step' = step) ]_vars

\* A non-2xx response whose body has no message has failed a submission of a
\* complete record.
C8_Witness ==
  /\ submissionStatus = "error"
  /\ consoleLog = "Server returned 500"
  /\ submitError = "Server returned 500"
  /\ \A k \in 1..5 : IsEmpty(validateStep(k, data))

\* ---------- C9 ----------
\* C9: every step that settles a pending request ends in "success" or "error";
\* "success" is entered only by a 2xx response; a submit that throws before
\* sending ends in "error"; and, the transport settling every pending fetch,
\* "submitting" leads to "success" or "error".
C9_NoPartialSuccess ==
  /\ [][ /\ (inflight' < inflight) =>
              submissionStatus' \in { "success", "error" }
         /\ (submissionStatus' = "success" /\ submissionStatus # "success") =>
              FetchOk
         /\ (consoleLog' # NoLog) => submissionStatus' = "error"
         /\ (submissionStatus' = "submitting") => inflight' > 0 ]_vars
  /\ (submissionStatus = "submitting") ~> (submissionStatus \in { "success", "error" })

\* A 2xx response has settled the only pending request.
C9_Witness ==
  /\ submissionStatus = "success"
  /\ inflight = 0
  /\ submitError = ""
  /\ \A k \in 1..5 : IsEmpty(validateStep(k, data))

\* ---------- C10 ----------
\* C10: the message stored for display in submitError is never the raw
\* error's own message, which goes to the log only.
C10_RawErrorNeverShown ==
  (consoleLog # NoLog) => (submitError # consoleLog)

\* ---------- C11 ----------
\* C11: with neither crypto.randomUUID nor crypto.getRandomValues, no step
\* hands a request to fetch; a submit that passes validateStep(5) ends in
\* "error" with nothing pending; and every key sent is one of the identifiers
\* the crypto API returns.
C11_NoCryptoAborts ==
  [][ /\ (cryptoApi = "none") => (~request'.sent /\ inflight' = 0)
      /\ ( /\ cryptoApi = "none"
           /\ SubmitButton \/ EnterInAvailability
           /\ IsEmpty(validateStep(5, data)) )
         => (submissionStatus' = "error" /\ submitError' # "")
      /\ request'.sent => request'.idempotencyKey \in UUIDS ]_vars

\* A complete record was submitted where crypto offers neither function.
C11_Witness ==
  /\ cryptoApi = "none"
  /\ step = 5
  /\ submissionStatus = "error"
  /\ consoleLog = "Crypto API not available"
  /\ inflight = 0

\* ---------- C12 ----------
\* C12: when every request sent has failed and the user submits the record
\* again unchanged, the request carries the X-Idempotency-Key of the request
\* last sent for that record.
C12_RetryCarriesSameKey ==
  [][ ( /\ request'.sent
        /\ submissionStatus = "error"
        /\ inflight = 0
        /\ lastKey # NoKey )
      => request'.idempotencyKey = lastKey ]_vars

\* ---------- sanitizeInput applied on its own ----------
\* The longest of the short texts given to sanitizeInput.
MaxTextLen == 3

\* The five characters escaped, the ampersand of the entities, whitespace and
\* a letter.
TextChars == { "<", ">", "\"", "'", "/", "&", " ", "a" }

ShortTexts == SeqsUpTo(TextChars, MaxTextLen)

\* Texts that are entities already.
EntityTexts == { EntLt, EntGt, EntQuot, EntApos, EntSlash, EntLt \o << "b" >> \o EntGt }

\* n letters
Fill(n) == [ i \in 1..n |-> "a" ]

\* Texts whose escaped form ends around the cap of slice(0, MAX_TEXT_LENGTH).
LongTexts ==
  { h \o Fill(n) \o t :
      h \in { << >>, << "<" >> },
      n \in (MAX_TEXT_LENGTH - 5)..MAX_TEXT_LENGTH,
      t \in { << >>, << " " >>, << " ", "b" >>, << "<" >>, << "'", " ", "/" >> } }

SanitizeInit ==
  /\ step = 3
  /\ submissionStatus = "idle"
  /\ errors = NoErrors
  /\ submitError = ""
  /\ \E text \in ShortTexts \cup EntityTexts \cup LongTexts :
       data = [ InitialData EXCEPT !.concernDetails = text ]
  /\ inflight = 0
  /\ request = NoRequest
  /\ consoleLog = NoLog
  /\ cryptoApi = "randomUUID"
  /\ lastKey = NoKey
  /\ succeeded = FALSE
  /\ out = NoOut

\* sanitizeInput(data.concernDetails)
Sanitize ==
  /\ out = NoOut
  /\ out' = [ op |-> "sanitizeInput", arg |-> data.concernDetails,
              val |-> sanitizeInput(data.concernDetails) ]
  /\ UNCHANGED <<step, submissionStatus, errors, submitError, data,
                 inflight, request, consoleLog, cryptoApi, lastKey, succeeded>>

\* sanitizeInput applied to the text it returned.
SanitizeAgain ==
  /\ out.op = "sanitizeInput"
  /\ out' = [ op |-> "sanitizeInput again", arg |-> out.val,
              val |-> sanitizeInput(out.val) ]
  /\ UNCHANGED <<step, submissionStatus, errors, submitError, data,
                 inflight, request, consoleLog, cryptoApi, lastKey, succeeded>>

SanitizeNext == Sanitize \/ SanitizeAgain

SanitizeSpec == SanitizeInit /\ [][SanitizeNext]_vars

\* ---------- C13 ----------
\* C13: sanitizeInput applied to a text it returned gives that text back.
C13_SanitizeIdempotent ==
  (out.op = "sanitizeInput again") => out.val = out.arg

\* ---------- handleSubmit applied to complete records ----------
\* The free-text fields of IntakeData.
TextFields ==
  { "firstName", "lastName", "email", "phone", "postcode", "pronouns",
    "concernDetails", "availability" }

\* Names as long as the inputs allow (maxLength = MAX_NAME_LENGTH).
LongNames ==
  { Fill(MAX_NAME_LENGTH),
    << "O", "'" >> \o Fill(MAX_NAME_LENGTH - 2),
    [ i \in 1..MAX_NAME_LENGTH |-> "<" ] }

EmailTexts ==
  { EmailGood,
    << "<", "@", "b", ".", "c" >>,
    << "a", "'", "@", "b", ".", "c", "/" >>,
    << "\"", "@", ">", ".", "&" >> }

PhoneTexts == { << >>, PhoneGood, << "+", "4", "4", "7", "1", "2", "3", "4", "5", "6", "7", "8", "9" >> }

PostcodeTexts == { << >>, << "S", "W", "1", "A", " ", "1", "A", "A" >>, << "m", "1", "1", "a", "e" >> }

\* Texts at, just under and over the cap, with characters to escape.
CapTexts ==
  { Fill(MAX_TEXT_LENGTH),
    << "<" >> \o Fill(MAX_TEXT_LENGTH - 5) \o << " ", "b" >>,
    << "<" >> \o Fill(MAX_TEXT_LENGTH) \o << "'", " ", "/" >> }

\* What can be typed into the input of a text field.
FieldTexts(f) ==
  CASE f \in { "firstName", "lastName" } -> ShortTexts \cup LongNames
    [] f = "email" -> EmailTexts
    [] f = "phone" -> PhoneTexts
    [] f = "postcode" -> PostcodeTexts
    [] OTHER -> ShortTexts \cup EntityTexts \cup CapTexts

\* A record that every step accepts.
CompleteData ==
  [ FilledData EXCEPT
      !.postcode = << "m", "1", "1", "a", "e" >>, !.pronouns = << "a" >>,
      !.employmentStatus = "employed", !.housing = "secure",
      !.concerns = << "emotional" >>, !.severity = "moderate",
      !.availability = << "a", " ", "a" >> ]

\* The wizard at step 5, holding a record that steps 1..4 have accepted.
PayloadInit ==
  /\ step = 5
  /\ submissionStatus = "idle"
  /\ errors = NoErrors
  /\ submitError = ""
  /\ \E f \in TextFields :
       \E text \in FieldTexts(f) :
         data = [ CompleteData EXCEPT ![f] = text ]
  /\ \A k \in 1..4 : IsEmpty(validateStep(k, data))
  /\ inflight = 0
  /\ request = NoRequest
  /\ consoleLog = NoLog
  /\ cryptoApi \in CryptoApis
  /\ lastKey = NoKey
  /\ succeeded = FALSE
  /\ out = NoOut

PayloadNext == SubmitButton

PayloadSpec == PayloadInit /\ [][PayloadNext]_vars

\* ---------- C14 ----------
RawChars == { "<", ">", "\"", "'", "/" }

\* C14: in every request sent, each free-text field that is present holds none
\* of the characters < > " ' / and at most MAX_TEXT_LENGTH characters.
C14_PayloadEscapedAndCapped ==
  request.sent =>
    \A f \in TextFields :
      (request.body[f] # UndefText) =>
        /\ Range(request.body[f]) \cap RawChars = { }
        /\ Len(request.body[f]) <= MAX_TEXT_LENGTH

\* A text with escaped characters on both sides of the cap was sent, cut.
C14_Witness ==
  /\ request.sent
  /\ data.availability = << "<" >> \o Fill(MAX_TEXT_LENGTH) \o << "'", " ", "/" >>
  /\ Len(request.body.availability) = MAX_TEXT_LENGTH
  /\ SubSeq(request.body.availability, 1, 5) = EntLt \o << "a" >>

\* ---------- C15 ----------
\* C15: in every request sent, firstName and lastName are non-empty and hold
\* at most MAX_NAME_LENGTH characters.
C15_PayloadNamesCapped ==
  request.sent =>
    /\ Len(request.body.firstName) \in 1..MAX_NAME_LENGTH
    /\ Len(request.body.lastName) \in 1..MAX_NAME_LENGTH

\* ---------- validateStep applied on its own ----------
\* The step whose section of the form renders the input of each field
\* (source has no input: 6, after every step).
FieldStep ==
  [ f \in DOMAIN InitialData |->
      CASE f \in { "firstName", "lastName", "email", "phone", "postcode",
                   "pronouns", "ageBand" } -> 1
        [] f \in { "employmentStatus", "relationshipStatus", "housing",
                   "dependents", "gpRegistered" } -> 2
        [] f \in { "concerns", "concernDetails", "severity", "riskFlags" } -> 3
        [] f \in { "supportPreferences", "availability", "preferredContact" } -> 4
        [] f = "consent" -> 5
        [] OTHER -> 6 ]

NameTexts ==
  { << >>, << " " >>, NameAl, Fill(MAX_NAME_LENGTH), Fill(MAX_NAME_LENGTH + 1) }

Consents ==
  { [ privacyPolicyAccepted |-> p, shareWithPartners |-> FALSE,
      anonymisedInsights |-> TRUE, crisisProtocolOk |-> c ] : p, c \in BOOLEAN }

\* Records that differ in the fields of one step: every combination of
\* accepted and refused values of the fields that step reads.
IdentityInput(d) ==
  \E b \in { InitialData, CompleteData },
     fn \in NameTexts, ln \in NameTexts,
     em \in EmailTexts \cup { << >>, << " " >>, << "a", "@", "b" >> },
     ph \in PhoneTexts \cup { << "1", "2", "3" >> },
     pc \in PostcodeTexts \cup { << "S", "W" >> } :
    d = [ b EXCEPT !.firstName = fn, !.lastName = ln, !.email = em,
                   !.phone = ph, !.postcode = pc ]

BackgroundInput(d) ==
  \E b \in { InitialData, CompleteData },
     emp \in EmploymentStatuses \cup { Undef },
     rel \in RelationshipStatuses \cup { Undef },
     h \in Housings \cup { Undef } :
    d = [ b EXCEPT !.employmentStatus = emp, !.relationshipStatus = rel, !.housing = h ]

ConcernsStepInput(d) ==
  \E b \in { InitialData, CompleteData },
     cs \in { << >>, << "emotional" >>, << "housing", "abuse" >> },
     sev \in Severities \cup { Undef },
     det \in { << >>, DetailsTag, Fill(MAX_TEXT_LENGTH), Fill(MAX_TEXT_LENGTH + 1) } :
    d = [ b EXCEPT !.concerns = cs, !.severity = sev, !.concernDetails = det ]

ConsentInput(d) ==
  \E b \in { InitialData, CompleteData },
     pc \in PreferredContacts \cup { Undef },
     sev \in Severities \cup { Undef },
     co \in Consents :
    d = [ b EXCEPT !.preferredContact = pc, !.severity = sev, !.consent = co ]

ValidateInit ==
  /\ step = 1
  /\ submissionStatus = "idle"
  /\ errors = NoErrors
  /\ submitError = ""
  /\ \/ IdentityInput(data)
     \/ BackgroundInput(data)
     \/ ConcernsStepInput(data)
     \/ ConsentInput(data)
  /\ inflight = 0
  /\ request = NoRequest
  /\ consoleLog = NoLog
  /\ cryptoApi = "randomUUID"
  /\ lastKey = NoKey
  /\ succeeded = FALSE
  /\ out = NoOut

\* validateStep(s, data)
Validate(s) ==
  /\ out = NoOut
  /\ out' = [ op |-> "validateStep", step |-> s, arg |-> data,
              val |-> validateStep(s, data) ]
  /\ UNCHANGED <<step, submissionStatus, errors, submitError, data,
                 inflight, request, consoleLog, cryptoApi, lastKey, succeeded>>

ValidateNext == \E s \in 1..5 : Validate(s)

ValidateSpec == ValidateInit /\ [][ValidateNext]_vars

Validated == out.op = "validateStep"

\* ---------- C16 ----------
\* C16: validateStep(5, record) is empty iff privacyPolicyAccepted is true and
\* (severity is neither high nor crisis, or crisisProtocolOk is true); with
\* severity high and crisisProtocolOk false it has the key "crisis".
C16_ConsentStep ==
  (Validated /\ out.step = 5) =>
    LET d == out.arg
    IN  /\ IsEmpty(out.val) <=>
             ( /\ d.consent.privacyPolicyAccepted
               /\ (d.severity \notin { "high", "crisis" } \/ d.consent.crisisProtocolOk) )
        /\ (d.severity = "high" /\ ~d.consent.crisisProtocolOk)
             => "crisis" \in DOMAIN out.val

\* Scenario 4 of the spec: severity high, crisisProtocolOk false, privacy accepted.
C16_Witness ==
  /\ Validated /\ out.step = 5
  /\ out.arg.severity = "high"
  /\ out.arg.consent.privacyPolicyAccepted
  /\ ~out.arg.consent.crisisProtocolOk
  /\ DOMAIN out.val = { "crisis" }

\* ---------- C17 ----------
\* C17 as stated: every key of the mapping returned by validateStep, at every
\* step 1..5, is the name of a field of the record.
C17_KeysAreFieldNames ==
  Validated => DOMAIN out.val \subseteq DOMAIN out.arg

\* The keys of the two consent rules of step 5.
ConsentRuleKeys == { "privacy", "crisis" }

\* C17 as amended: at steps 1..4 every key is the name of a field of the record
\* whose input belongs to that step, and its message is not empty; at step 5
\* the keys are "privacy" (consent.privacyPolicyAccepted) and "crisis"
\* (consent.crisisProtocolOk); a key occurs once.
C17_KeysAreFieldOrConsentRule ==
  Validated =>
    \A k \in DOMAIN out.val :
      /\ out.val[k] # ""
      /\ IF out.step = 5
           THEN k \in ConsentRuleKeys
           ELSE k \in DOMAIN out.arg /\ FieldStep[k] = out.step

\* Both rules of step 5 are violated.
C17_Witness ==
  /\ Validated
  /\ out.step = 5
  /\ out.arg.severity = "crisis"
  /\ DOMAIN out.val = ConsentRuleKeys

\* ---------- C18 ----------
\* The record d with every field introduced after step n taken from e.
WithLaterFields(n, d, e) ==
  [ f \in DOMAIN d |-> IF FieldStep[f] > n THEN e[f] ELSE d[f] ]

\* Records to take later fields from: a record with every field unset and one
\* with every field filled, with each severity and consent that the rules of
\* step 5 tell apart.
OtherRecords ==
  { [ b EXCEPT !.severity = sev, !.consent = co ] :
      b \in { InitialData, CompleteData },
      sev \in { Undef, "high" },
      co \in Consents }

\* C18: validateStep(N, .) returns the same mapping for two records that agree
\* on the fields introduced in steps 1..N, whatever the fields introduced
\* later hold.
C18_StepScoped ==
  Validated =>
    \A e \in OtherRecords :
      validateStep(out.step, WithLaterFields(out.step, out.arg, e)) = out.val

\* Step 3 accepts a record whose consent, a field of step 5, breaks the rule
\* that step 5 has for its severity.
C18_Witness ==
  /\ Validated
  /\ out.step = 3
  /\ out.arg.severity = "high"
  /\ ~out.arg.consent.crisisProtocolOk
  /\ IsEmpty(out.val)
  /\ ~IsEmpty(validateStep(5, out.arg))

\* ---------- C20 ----------
\* The records that differ from d in one contributing input, moved from a
\* zero-weight state to a weighted one.
Raised(d) ==
  { [ d EXCEPT !.riskFlags[k] = TRUE ] : k \in { x \in DOMAIN d.riskFlags : ~d.riskFlags[x] } }
  \cup { [ d EXCEPT !.severity = sev ] :
           sev \in IF d.severity \in { "low", Undef }
                     THEN { "moderate", "high", "crisis" } ELSE { } }
  \cup { [ d EXCEPT !.housing = h ] :
           h \in IF d.housing \in { "homeless", "atRisk" }
                   THEN { } ELSE { "homeless", "atRisk" } }
  \cup { [ d EXCEPT !.employmentStatus = emp ] :
           emp \in IF d.employmentStatus \in { "unemployed", "unableToWork" }
                     THEN { } ELSE { "unemployed", "unableToWork" } }

PriorityRank(p) ==
  CASE p = "Low" -> 0 [] p = "Medium" -> 1 [] p = "High" -> 2 [] p = "Immediate" -> 3

\* C20: moving one contributing input from a zero-weight state to a weighted
\* one, every other field held, lowers neither riskScore nor priority.
C20_RiskScoreMonotone ==
  Classified =>
    \A r \in Raised(out.arg) :
      /\ computeClassification(r).riskScore >= out.val.riskScore
      /\ PriorityRank(computeClassification(r).priority) >= PriorityRank(out.val.priority)

\* A record at score 12 (crisis, selfHarm) on which domesticAbuse can be raised.
C20_Witness ==
  /\ Classified
  /\ out.arg.severity = "crisis"
  /\ out.arg.riskFlags.selfHarm
  /\ ~out.arg.riskFlags.domesticAbuse
  /\ out.val.riskScore = 12
  /\ computeClassification([ out.arg EXCEPT !.riskFlags.domesticAbuse = TRUE ]).riskScore = 18

\* ---------- C21 ----------
AllFlagsSet(d) == \A k \in DOMAIN d.riskFlags : d.riskFlags[k]
NoFlagSet(d) == \A k \in DOMAIN d.riskFlags : ~d.riskFlags[k]

\* C21: 0 <= riskScore <= 30 for every record, and riskScore = 30 exactly when
\* severity is crisis, the four risk flags are true, housing is homeless or
\* atRisk and employmentStatus is unemployed or unableToWork.
C21_RiskScoreRange ==
  Classified =>
    LET d == out.arg
    IN  /\ out.val.riskScore \in 0..30
        /\ (out.val.riskScore = 30) <=>
             ( /\ d.severity = "crisis"
               /\ AllFlagsSet(d)
               /\ d.housing \in { "homeless", "atRisk" }
               /\ d.employmentStatus \in { "unemployed", "unableToWork" } )

\* The maximum is attained with atRisk and unableToWork.
C21_Witness ==
  /\ Classified
  /\ out.arg.housing = "atRisk"
  /\ out.arg.employmentStatus = "unableToWork"
  /\ out.val.riskScore = 30

\* ---------- C30 ----------
\* C30: with no risk flag set, riskScore is at most 11 and priority is not
\* Immediate, whatever the severity, housing and employmentStatus; so priority
\* Immediate implies a risk flag that is true.
C30_NoFlagsNotImmediate ==
  Classified =>
    /\ NoFlagSet(out.arg) => (out.val.riskScore <= 11 /\ out.val.priority # "Immediate")
    /\ (out.val.priority = "Immediate") => ~NoFlagSet(out.arg)

\* The highest score without a flag: crisis, homeless, unemployed.
C30_Witness ==
  /\ Classified
  /\ NoFlagSet(out.arg)
  /\ out.arg.severity = "crisis"
  /\ out.val.riskScore = 11
  /\ out.val.priority = "High"

\* ---------- The checkboxes of steps 3 and 4 on their own ----------
\* The checkboxes of each catalog that are clicked.
MaxToggleKeys == 3

Catalog(field) == IF field = "concerns" THEN CONCERNS ELSE SUPPORT_PREFERENCES

ArrayFields == { "concerns", "supportPreferences" }

\* The wizard at step 3 with nothing ticked, steps 1 and 2 accepted.
ToggleInit ==
  /\ step = 3
  /\ submissionStatus = "idle"
  /\ errors = NoErrors
  /\ submitError = ""
  /\ data = [ CompleteData EXCEPT !.concerns = << >>, !.supportPreferences = << >> ]
  /\ inflight = 0
  /\ request = NoRequest
  /\ consoleLog = NoLog
  /\ cryptoApi = "randomUUID"
  /\ lastKey = NoKey
  /\ succeeded = FALSE
  /\ out = NoOut

ToggleNext ==
  \/ \E field \in ArrayFields, i \in 1..MaxToggleKeys :
       toggleArrayField(field, Catalog(field)[i])
  \/ next
  \/ prev

ToggleSpec == ToggleInit /\ [][ToggleNext]_vars

\* ---------- C22 ----------
NoDuplicates(arr) == Cardinality(Range(arr)) = Len(arr)

\* C22: concerns and supportPreferences hold only keys of their catalog, none
\* twice; a toggle adds the key when absent and removes it when present, and
\* changes no other field.
C22_ToggleSets ==
  /\ [](\A field \in ArrayFields :
          /\ Range(data[field]) \subseteq Range(Catalog(field))
          /\ NoDuplicates(data[field]))
  /\ [][ \A field \in ArrayFields, i \in 1..MaxToggleKeys :
           LET key == Catalog(field)[i]
           IN  toggleArrayField(field, key) =>
                 /\ Range(data'[field]) =
                      IF key \in Range(data[field])
                        THEN Range(data[field]) \ { key }
                        ELSE Range(data[field]) \cup { key }
                 /\ \A f \in DOMAIN data : (f # field) => data'[f] = data[f] ]_vars

\* Keys were ticked out of the catalog's order and one was unticked again.
C22_Witness ==
  /\ step = 4
  /\ data.concerns = << "emotional", "employment" >>
  /\ data.supportPreferences = << "peer" >>

\* ---------- C24 ----------
\* C24: the triage of every request sent is computeClassification of the
\* record that request carries, whatever was edited before the submit.
C24_PayloadTriageMatchesRecord ==
  request.sent =>
    LET body == request.body
    IN  /\ body.triage = computeClassification(body)
        /\ \A f \in { "severity", "riskFlags", "housing", "employmentStatus", "concerns" } :
             body[f] = data[f]

\* A record with a flag, a severity, a housing and an employment contribution
\* is sent while an earlier request is still pending.
C24_Witness ==
  /\ request.sent
  /\ inflight = 2
  /\ request.body.severity = "crisis"
  /\ request.body.riskFlags.selfHarm
  /\ request.body.triage.riskScore = 17
  /\ request.body.triage.priority = "Immediate"
  /\ request.body.triage.buckets = << "Safety/Crisis" >>

\* ---------- C25 ----------
\* The fields declared optional (f?:) other than source, and the enum fields
\* other than source.
OptionalFields ==
  { "pronouns", "phone", "postcode", "ageBand", "employmentStatus",
    "relationshipStatus", "housing", "dependents", "concernDetails", "severity",
    "gpRegistered", "availability", "preferredContact" }

EnumFields ==
  { "ageBand", "employmentStatus", "relationshipStatus", "housing", "dependents",
    "severity", "preferredContact" }

\* undefined, or the empty string of a text input.
Unset(d, f) == IF f \in TextFields THEN d[f] = << >> ELSE d[f] = Undef

\* The record but for the fields in the set except.
EmptyBut(d, except) ==
  /\ \A f \in (OptionalFields \cup EnumFields) \ except : Unset(d, f)
  /\ d.source = "web"
  /\ d.concerns = << >> /\ d.supportPreferences = << >>
  /\ NoFlagSet(d)

\* C25 as stated: when the wizard opens, every optional field and every enum
\* field other than source is unset, source is web, both collections are
\* empty and the risk flags are false.
C25_InitialRecordEmpty == Init => EmptyBut(data, { })

\* C25 as amended: the same but for dependents, which is "none".
C25_InitialRecordEmptyButDependents ==
  Init => (EmptyBut(data, { "dependents" }) /\ data.dependents = "none")

\* The wizard has just opened.
C25_Witness ==
  /\ Init
  /\ data.dependents = "none"
  /\ data.source = "web"
  /\ data.severity = Undef

\* ---------- C26 ----------
\* Empty after trimming, or longer than MAX_NAME_LENGTH.
NameRefused(name) == trim(name) = << >> \/ Len(name) > MAX_NAME_LENGTH

\* C26: at step 1 the mapping has the key firstName iff firstName is empty
\* after trimming or longer than 100 characters, and lastName likewise,
\* whatever the other fields hold; an empty phone or postcode gives no entry;
\* an email that is empty or not of the shape local@domain.tld gives the key
\* email.
C26_IdentityStep ==
  (Validated /\ out.step = 1) =>
    LET d == out.arg
        keys == DOMAIN out.val
    IN  /\ ("firstName" \in keys) <=> NameRefused(d.firstName)
        /\ ("lastName" \in keys) <=> NameRefused(d.lastName)
        /\ (d.phone = << >>) => "phone" \notin keys
        /\ (d.postcode = << >>) => "postcode" \notin keys
        /\ (trim(d.email) = << >> \/ ~RegexTest(emailRe, d.email)) => "email" \in keys

\* Scenario 3 of the spec: firstName empty, lastName given, email without a
\* top-level part: the keys are firstName and email.
C26_Witness ==
  /\ Validated /\ out.step = 1
  /\ out.arg.firstName = << >>
  /\ out.arg.lastName = NameAl
  /\ out.arg.email = << "a", "@", "b" >>
  /\ out.arg.phone = << >> /\ out.arg.postcode = << >>
  /\ DOMAIN out.val = { "firstName", "email" }

\* ---------- C27 ----------
\* C27: with the wizard at step k, validateStep(j, record) is empty for every
\* j < k; a step that changes the record changes only fields whose input
\* belongs to the current step; and prev changes no field.
C27_WizardInvariant ==
  /\ [](\A j \in 1..(step - 1) : IsEmpty(validateStep(j, data)))
  /\ [][ /\ \A f \in DOMAIN data : (data'[f] # data[f]) => FieldStep[f] = step
         /\ prev => (data' = data /\ step' = step - 1) ]_vars

\* The user went back from step 4 to step 1 and blanked the first name: the
\* wizard holds a record that step 1 refuses, at step 1.
C27_Witness ==
  /\ step = 1
  /\ data.firstName = << >>
  /\ data.preferredContact = "email"
  /\ ~IsEmpty(validateStep(1, data))
  /\ \A j \in 2..4 : IsEmpty(validateStep(j, data))

\* ---------- C29 ----------
\* C29: a submit that validateStep(5) refuses sends no request and changes
\* the errors only: submissionStatus, submitError, step and the record stay.
C29_BlockedSubmitFrame ==
  [][ ( /\ ~IsEmpty(validateStep(5, data))
        /\ SubmitButton \/ EnterInAvailability )
      => /\ ~request'.sent
         /\ inflight' = inflight
         /\ errors' = validateStep(5, data)
         /\ UNCHANGED <<submissionStatus, submitError, step, data>> ]_vars

\* After a failed attempt the privacy box was unticked and Submit pressed:
\* the status is still "error" with the message of the failed attempt.
C29_Witness ==
  /\ step = 5
  /\ submissionStatus = "error"
  /\ submitError = "Failed to fetch"
  /\ DOMAIN errors = { "privacy" }
  /\ inflight = 0

\* ---------- C28 ----------
\* The changes of submissionStatus a call of handleSubmit and its response
\* make. A call whose generateSecureId throws sets "submitting" and reaches the
\* catch before its first await, so the page goes from "idle" to "error".
StatusTransitions ==
  { << "idle", "submitting" >>, << "submitting", "success" >>,
    << "submitting", "error" >>, << "error", "submitting" >>,
    << "idle", "error" >> }

\* C28: submissionStatus changes only along idle -> submitting,
\* submitting -> success, submitting -> error, error -> submitting; it never
\* returns to idle, success is terminal, and while it is submitting the step
\* is 5 and stays 5.
C28_StatusTransitions ==
  /\ [](submissionStatus = "submitting" => step = 5)
  /\ [][ /\ (submissionStatus' # submissionStatus)
              => << submissionStatus, submissionStatus' >> \in StatusTransitions
         /\ (submissionStatus = "submitting" /\ submissionStatus' = "submitting")
              => step' = step ]_vars

\* ---------- C23 ----------
\* C23: once a submission has succeeded the record is never changed again,
\* no further request is sent, and neither the step nor the errors move.
C23_SuccessIsFinal ==
  [][ succeeded => /\ data' = data
                   /\ ~request'.sent
                   /\ step' = step
                   /\ errors' = errors ]_vars

====
